---------------------------- MODULE Spec2Model ----------------------------
(***************************************************************************)
(* A model of exp_perf::counter (src/counter.h) and exp_perf::collector    *)
(* (src/collector.h): the perf-event counter wrapper and the adaptive      *)
(* sequential sampler built on it.                                         *)
(*                                                                         *)
(* One collector is constructed (four init_event calls, then the           *)
(* constructor body), collect() is called once on it, and the collector is *)
(* destroyed; the caller may then construct another with another alpha.    *)
(* The kernel (which opens succeed, which control calls fail, what each    *)
(* read returns) and the caller (configuration, arguments of collect) are  *)
(* the environment.  In Spec a read returns any count; in ScriptSpec the   *)
(* counts are fixed in advance, so that sessions fed the same counts can   *)
(* be compared.                                                            *)
(***************************************************************************)
EXTENDS Integers, Sequences, FiniteSets, TLC

(***************************************************************************)
(* Bounds of the model.                                                    *)
(***************************************************************************)
MaxCount == 1
MaxRounds == 2
MaxIncr == 2
MaxRuns == 2
ScriptLen == 5
HighCount == 4
DeepRounds == 4

(* n_init values the caller passes. *)
NInitChoices == {1, 2}

(* Initial input sizes the caller passes: a small one, and one whose       *)
(* doubling leaves the range of int.                                       *)
InputSizes == {64, 1073741824}

(* Counts a scripted kernel reports: a low and a high one, both positive. *)
ScriptCounts == {1, HighCount}

(* The scripts, each repeated for ever: ScriptLen counts of which the      *)
(* first a are low and the rest high, or the first a high and the rest     *)
(* low; among them the two constant ones.                                  *)
Scripts ==
    UNION {{[i \in 1 .. ScriptLen |-> IF i <= a THEN 1 ELSE HighCount],
            [i \in 1 .. ScriptLen |-> IF i <= a THEN HighCount ELSE 1]} :
           a \in 0 .. ScriptLen}

(***************************************************************************)
(* Program constants.                                                      *)
(***************************************************************************)
PERF_SW_TASK_CLK == 0
PERF_SW_CPU_CLK == 1
PERF_HW_INSTR_CTR == 2
PERF_HW_CYCLES_CLK == 3

(* The range of int (32 bits). *)
INT_MAX == 2147483647
INT_MIN == -INT_MAX - 1

(* The lowest file descriptor perf_event_open can return: 0, 1 and 2 are   *)
(* the standard streams.                                                   *)
FIRST_FD == 3

(* The events the collector's constructor asks the counter for, in the     *)
(* order counter::counter calls init_event on them.                        *)
RequestedEvents ==
    << [type |-> "PERF_TYPE_SOFTWARE", config |-> "PERF_COUNT_SW_TASK_CLOCK"],
       [type |-> "PERF_TYPE_SOFTWARE", config |-> "PERF_COUNT_SW_CPU_CLOCK"],
       [type |-> "PERF_TYPE_HARDWARE", config |-> "PERF_COUNT_HW_INSTRUCTIONS"],
       [type |-> "PERF_TYPE_HARDWARE", config |-> "PERF_COUNT_HW_REF_CPU_CYCLES"] >>

(***************************************************************************)
(* double.  A value is NaN, an infinity, or a signed rational s * n / d    *)
(* (n >= 0, d > 0); zero keeps its sign, as in IEEE 754.  The rationals    *)
(* are exact where the machine rounds to 53 bits: on the small integers    *)
(* of this model the sign, the zero test and every comparison against an   *)
(* integer agree with the rounded value.                                   *)
(***************************************************************************)
NaN == [k |-> "nan", s |-> 1, n |-> 0, d |-> 1]
Inf(sg) == [k |-> "inf", s |-> sg, n |-> 0, d |-> 1]
Fin(sg, num, den) == [k |-> "fin", s |-> sg, n |-> num, d |-> den]
IsZero(x) == x.k = "fin" /\ x.n = 0

(* int or long long to double *)
DFromInt(i) == IF i < 0 THEN Fin(-1, -i, 1) ELSE Fin(1, i, 1)

(* the signed numerator of a finite value over its denominator *)
SNum(x) == x.s * x.n

DAdd(x, y) ==
    IF x.k = "nan" \/ y.k = "nan" THEN NaN
    ELSE IF x.k = "inf" /\ y.k = "inf" THEN (IF x.s = y.s THEN x ELSE NaN)
    ELSE IF x.k = "inf" THEN x
    ELSE IF y.k = "inf" THEN y
    ELSE LET num == SNum(x) * y.d + SNum(y) * x.d
             den == x.d * y.d
         IN  IF num < 0 THEN Fin(-1, -num, den)
             ELSE IF num > 0 THEN Fin(1, num, den)
             \* an exact zero sum is +0 unless both operands are -0
             ELSE IF IsZero(x) /\ IsZero(y) /\ x.s = -1 /\ y.s = -1
                  THEN Fin(-1, 0, 1)
                  ELSE Fin(1, 0, 1)

DNeg(x) == IF x.k = "nan" THEN NaN ELSE [x EXCEPT !.s = -x.s]

DSub(x, y) == DAdd(x, DNeg(y))

DMul(x, y) ==
    IF x.k = "nan" \/ y.k = "nan" THEN NaN
    ELSE IF (x.k = "inf" /\ IsZero(y)) \/ (IsZero(x) /\ y.k = "inf") THEN NaN
    ELSE IF x.k = "inf" \/ y.k = "inf" THEN Inf(x.s * y.s)
    ELSE Fin(x.s * y.s, x.n * y.n, x.d * y.d)

DDiv(x, y) ==
    IF x.k = "nan" \/ y.k = "nan" THEN NaN
    ELSE IF x.k = "inf" /\ y.k = "inf" THEN NaN
    ELSE IF IsZero(x) /\ IsZero(y) THEN NaN
    ELSE IF x.k = "inf" THEN Inf(x.s * y.s)
    ELSE IF y.k = "inf" THEN Fin(x.s * y.s, 0, 1)
    ELSE IF IsZero(y) THEN Inf(x.s * y.s)
    ELSE Fin(x.s * y.s, x.n * y.d, x.d * y.n)

(* x <= y on doubles: false when either is NaN *)
DLeq(x, y) ==
    IF x.k = "nan" \/ y.k = "nan" THEN FALSE
    ELSE IF x.k = "inf" THEN (x.s = -1 \/ (y.k = "inf" /\ y.s = 1))
    ELSE IF y.k = "inf" THEN y.s = 1
    ELSE SNum(x) * y.d <= SNum(y) * x.d

(* (int)x: truncation toward zero when the truncated value is an int.      *)
(* Otherwise (NaN, an infinity, out of range) the conversion is undefined: *)
(* the builds produce INT_MIN (x86 cvttsd2si), or the saturated value or   *)
(* 0 for NaN (AArch64 fcvtzs).  The result is a set of possible values.    *)
DToInt(x) ==
    IF x.k = "nan" THEN {INT_MIN, 0}
    ELSE IF x.k = "inf" THEN {INT_MIN, IF x.s = 1 THEN INT_MAX ELSE INT_MIN}
    ELSE LET q == x.n \div x.d
         IN  IF x.s = 1 /\ q > INT_MAX THEN {INT_MIN, INT_MAX}
             ELSE IF x.s = -1 /\ q > INT_MAX THEN {INT_MIN}
             ELSE {x.s * q}


(* std::log on the confidence levels of the model, to four decimals:      *)
(* log(1/20) = -2.99573..., log(1/2) = -0.69314...                         *)
DLog(x) ==
    IF x = Fin(1, 1, 20) THEN Fin(-1, 29957, 10000)
    ELSE IF x = Fin(1, 1, 2) THEN Fin(-1, 6931, 10000)
    ELSE NaN

(* The alpha and beta_min values the caller passes, all in (0,1). *)
AlphaChoices == {Fin(1, 1, 20), Fin(1, 1, 2)}
BetaMinChoices == {Fin(1, 1, 2)}

(* The counts one read of the kernel's counters can return. *)
Counts == 0 .. MaxCount

(* What a read outside the counts vector can yield when it does not trap:  *)
(* any long long.                                                          *)
GarbageCounts == {-1} \cup Counts

VARIABLES
    pc,            \* where the program is
    supported,     \* kernel: which of the requested events this machine can open
    evt,           \* how many init_event calls the counter's constructor has made
    m_events,      \* counter::m_events: the attributes of the opened events
    m_fds,         \* counter::m_fds: the descriptors of the opened events
    m_counts,      \* counter::m_counts
    enabled,       \* kernel: the descriptors whose counter is enabled
    closed,        \* kernel: the descriptors passed to ::close, in order
    m_ctr_idx,     \* collector::m_ctr_idx
    m_alpha, m_beta_min, m_min_incr, m_max_incr, m_max_rounds, m_n_init,
    N, num_runs, run_i,        \* collect: its arguments and its loop variable
    input_sz, n, sum, L_hat, n_tot, beta, round_i, trial_i,
                               \* collect_for_input_size: argument and locals
    sunk,          \* the input sizes the updater u was called with, in order
    ctl_failed,    \* history: an ioctl or read of counter::start/stop has failed
    running,       \* history: counter::start has returned and counter::stop has not
    script,        \* the kernel: the counts its reads return, in order and repeated;
                   \* << >> when any read may return any count
    pos,           \* the kernel: the position in script of the next count
    prev,          \* history: rounds, n_tot and beta at the end of the previous
                   \* session, kept when the kernel follows a script
    before,        \* history: alpha, and n_tot and beta at the end of the session,
                   \* of the collector constructed before this one, kept when the
                   \* kernel follows a script and that collector ran one session
    N0,            \* history: the init_input_sz collect was called with
    trials,        \* history: get_counts calls completed in this session
    raw_min,       \* history: the least count read in this session (trials > 0)
    rounds,        \* history: rounds completed in this session
    L_end          \* history: L_hat at the end of the last completed round

ctrVars == <<m_events, m_fds, m_counts, enabled, closed>>
cfgVars == <<m_alpha, m_beta_min, m_min_incr, m_max_incr, m_max_rounds, m_n_init>>
callVars == <<N, num_runs, run_i, N0>>
sessVars == <<input_sz, n, sum, L_hat, n_tot, beta, round_i, trial_i>>
histVars == <<trials, raw_min, rounds, L_end>>
obsVars == <<ctl_failed, running>>
scriptVars == <<script, pos, prev, before>>
vars == <<pc, supported, evt, ctrVars, m_ctr_idx, cfgVars, callVars, sessVars, sunk,
          histVars, obsVars, scriptVars>>

(* The locals of collect_for_input_size outside a call: no value. *)
NoSession ==
    /\ input_sz' = 0
    /\ n' = 0
    /\ sum' = Fin(1, 0, 1)
    /\ L_hat' = 0
    /\ n_tot' = 0
    /\ beta' = Fin(1, 0, 1)
    /\ round_i' = 0
    /\ trial_i' = 0
    /\ trials' = 0
    /\ raw_min' = 0
    /\ rounds' = 0
    /\ L_end' = 0

(***************************************************************************)
(* counter                                                                 *)
(***************************************************************************)

(* counter::get_status(i), on the 0-based index i *)
get_status(fds, i) ==
    IF i > 0 /\ i < Len(fds) THEN fds[i + 1] > -1 ELSE FALSE

(* perf_event_open: the descriptor the kernel returns when the open        *)
(* succeeds (the lowest free one), and -1 when it fails.                   *)
perf_event_open(fds, ok) == IF ok THEN FIRST_FD + Len(fds) ELSE -1

(* counter::init_event on the next requested event *)
InitEvent ==
    /\ pc = "init_event"
    /\ evt < Len(RequestedEvents)
    /\ LET pe == RequestedEvents[evt + 1]
           fd == perf_event_open(m_fds, supported[evt + 1])
       IN  IF fd > -1
           THEN /\ m_events' = Append(m_events, pe)
                /\ m_fds' = Append(m_fds, fd)
                /\ m_counts' = Append(m_counts, 0)
           ELSE UNCHANGED <<m_events, m_fds, m_counts>>
    /\ evt' = evt + 1
    /\ UNCHANGED <<pc, supported, enabled, closed, m_ctr_idx, cfgVars, callVars,
                   sessVars, sunk, obsVars, scriptVars, histVars>>

(* collector::collector, its body, once the counter member is constructed *)
SelectCounter(fds) ==
    IF get_status(fds, PERF_HW_INSTR_CTR) THEN PERF_HW_INSTR_CTR
    ELSE PERF_SW_TASK_CLK

CtorBody ==
    /\ pc = "init_event"
    /\ evt = Len(RequestedEvents)
    /\ m_ctr_idx' = SelectCounter(m_fds)
    /\ pc' = "ready"
    /\ UNCHANGED <<supported, evt, ctrVars, cfgVars, callVars, sessVars, sunk, obsVars,
                   scriptVars, histVars>>

(* the descriptors at the 1-based positions below j *)
FdsBelow(fds, j) == {fds[i] : i \in {k \in DOMAIN fds : k < j}}

(* counter::start when every ioctl succeeds: each opened event is reset    *)
(* and enabled, and its count is zeroed.                                   *)
CounterStart ==
    /\ pc = "start"
    /\ enabled' = enabled \cup FdsBelow(m_fds, Len(m_fds) + 1)
    /\ m_counts' = [i \in DOMAIN m_counts |-> IF i <= Len(m_fds) THEN 0 ELSE m_counts[i]]
    /\ running' = TRUE
    /\ pc' = "run"
    /\ UNCHANGED <<supported, evt, m_events, m_fds, closed, m_ctr_idx, cfgVars,
                   callVars, sessVars, sunk, ctl_failed, scriptVars, histVars>>

(* counter::start when PERF_EVENT_IOC_RESET or PERF_EVENT_IOC_ENABLE fails *)
(* on the j-th opened event: std::system_error leaves start, get_counts,   *)
(* collect_for_input_size and collect.                                     *)
CounterStartThrows ==
    /\ pc = "start"
    /\ \E j \in DOMAIN m_fds :
         /\ enabled' = enabled \cup FdsBelow(m_fds, j)
         /\ m_counts' = [i \in DOMAIN m_counts |-> IF i < j THEN 0 ELSE m_counts[i]]
    /\ ctl_failed' = TRUE
    /\ pc' = "thrown"
    /\ NoSession
    /\ UNCHANGED <<supported, evt, m_events, m_fds, closed, m_ctr_idx, cfgVars,
                   callVars, sunk, running, scriptVars>>

(* a get_counts that calls stop(N) without stopping the counter first *)
CounterStopForgotten ==
    /\ pc = "stop"
    /\ pc' = "teardown"
    /\ UNCHANGED <<supported, evt, ctrVars, m_ctr_idx, cfgVars, callVars, sessVars,
                   sunk, obsVars, scriptVars, histVars>>

(* the counts the kernel's next read can return, and the position in the   *)
(* script after it                                                         *)
KernelCounts == IF script = << >> THEN Counts ELSE {script[pos]}
NextPos == IF script = << >> \/ pos = Len(script) THEN 1 ELSE pos + 1

(* counter::stop when every call succeeds: each opened event is disabled   *)
(* and its count read.  The kernel's counts are the environment's: one     *)
(* workload cost c, reported by every opened event.                        *)
CounterStop ==
    /\ pc = "stop"
    /\ enabled' = enabled \ FdsBelow(m_fds, Len(m_fds) + 1)
    /\ \E c \in KernelCounts :
         m_counts' = [i \in DOMAIN m_counts |-> IF i <= Len(m_fds) THEN c ELSE m_counts[i]]
    /\ pos' = NextPos
    /\ running' = FALSE
    /\ pc' = "teardown"
    /\ UNCHANGED <<supported, evt, m_events, m_fds, closed, m_ctr_idx, cfgVars,
                   callVars, sessVars, sunk, ctl_failed, script, prev, before,
                   histVars>>

(* a collector that catches the std::system_error of counter::stop and     *)
(* goes on with the trial                                                  *)
CounterStopSwallowed ==
    /\ pc = "stop"
    /\ \E j \in DOMAIN m_fds, c \in KernelCounts :
         /\ enabled' = enabled \ FdsBelow(m_fds, j)
         /\ m_counts' = [i \in DOMAIN m_counts |-> IF i < j THEN c ELSE m_counts[i]]
    /\ ctl_failed' = TRUE
    /\ pc' = "teardown"
    /\ UNCHANGED <<supported, evt, m_events, m_fds, closed, m_ctr_idx, cfgVars,
                   callVars, sessVars, sunk, running, scriptVars, histVars>>

(* counter::stop when PERF_EVENT_IOC_DISABLE (disabled = FALSE) or ::read  *)
(* (disabled = TRUE) fails on the j-th opened event.                       *)
CounterStopThrows ==
    /\ pc = "stop"
    /\ \E j \in DOMAIN m_fds, disabled \in BOOLEAN, c \in KernelCounts :
         /\ enabled' = enabled \ FdsBelow(m_fds, IF disabled THEN j + 1 ELSE j)
         /\ m_counts' = [i \in DOMAIN m_counts |-> IF i < j THEN c ELSE m_counts[i]]
    /\ ctl_failed' = TRUE
    /\ pc' = "thrown"
    /\ NoSession
    /\ UNCHANGED <<supported, evt, m_events, m_fds, closed, m_ctr_idx, cfgVars,
                   callVars, sunk, running, scriptVars>>

(* counter::~counter: ::close(m_fds[0]).  With no opened event m_fds[0]    *)
(* reads outside the vector: the process traps, or some int is closed.     *)
Destroy ==
    /\ pc \in {"ready", "done", "thrown"}
    /\ IF Len(m_fds) > 0
       THEN /\ closed' = Append(closed, m_fds[1])
            /\ pc' = "destroyed"
       ELSE \/ /\ pc' = "crashed"
               /\ UNCHANGED closed
            \/ /\ \E g \in {-1, 0} : closed' = Append(closed, g)
               /\ pc' = "destroyed"
    /\ UNCHANGED <<supported, evt, m_events, m_fds, m_counts, enabled, m_ctr_idx,
                   cfgVars, callVars, sessVars, sunk, obsVars, scriptVars, histVars>>

(***************************************************************************)
(* collector::collect                                                      *)
(***************************************************************************)

(* the caller calls collect(init_input_sz, num_runs, start, stop, run, u) *)
Collect ==
    /\ pc = "ready"
    /\ \E sz \in InputSizes, runs \in 0 .. MaxRuns :
         /\ N' = sz
         /\ N0' = sz
         /\ num_runs' = runs
    /\ run_i' = 0
    /\ pc' = "collect_loop"
    /\ UNCHANGED <<supported, evt, ctrVars, m_ctr_idx, cfgVars, sessVars, sunk, obsVars,
                   scriptVars, histVars>>

(* the test of the trial loop, for (int i = 0; i <= n; ++i) *)
TrialLoopHead(i, batch) == IF i <= batch THEN "setup" ELSE "stats"

(* a round loop that tests i <= m_max_rounds *)
RoundLoopHeadOneMore(r, max_rounds, batch) ==
    IF r <= max_rounds THEN (IF 0 <= batch THEN "setup" ELSE "stats") ELSE "sink"

(* the test of the round loop, for (int i = 0; i < m_max_rounds; ++i),     *)
(* followed by the first test of the trial loop                            *)
RoundLoopHead(r, max_rounds, batch) ==
    IF r < max_rounds THEN TrialLoopHead(0, batch) ELSE "sink"

(* a collect_for_input_size whose first batch size grows with the number   *)
(* of sessions already run                                                 *)
SessionBeginCarries ==
    /\ pc = "collect_loop"
    /\ run_i < num_runs
    /\ input_sz' = N
    /\ n' = m_n_init + run_i
    /\ sum' = DFromInt(0)
    /\ L_hat' = 0
    /\ n_tot' = 0
    /\ beta' = DAdd(m_beta_min, DFromInt(1))
    /\ round_i' = 0
    /\ trial_i' = 0
    /\ trials' = 0
    /\ raw_min' = 0
    /\ rounds' = 0
    /\ L_end' = 0
    /\ pc' = "setup"
    /\ UNCHANGED <<supported, evt, ctrVars, m_ctr_idx, cfgVars, callVars, sunk, obsVars,
                   scriptVars>>

(* the test of collect's loop succeeds: collect_for_input_size(N, ...) is  *)
(* called and initializes its locals                                       *)
SessionBegin ==
    /\ pc = "collect_loop"
    /\ run_i < num_runs
    /\ input_sz' = N
    /\ n' = m_n_init
    /\ sum' = DFromInt(0)
    /\ L_hat' = 0
    /\ n_tot' = 0
    /\ beta' = DAdd(m_beta_min, DFromInt(1))
    /\ round_i' = 0
    /\ trial_i' = 0
    /\ trials' = 0
    /\ raw_min' = 0
    /\ rounds' = 0
    /\ L_end' = 0
    /\ pc' = RoundLoopHead(0, m_max_rounds, m_n_init)
    /\ UNCHANGED <<supported, evt, ctrVars, m_ctr_idx, cfgVars, callVars, sunk, obsVars,
                   scriptVars>>

(* the test of collect's loop fails: collect returns *)
CollectReturn ==
    /\ pc = "collect_loop"
    /\ ~(run_i < num_runs)
    /\ pc' = "done"
    /\ UNCHANGED <<supported, evt, ctrVars, m_ctr_idx, cfgVars, callVars, sessVars,
                   sunk, obsVars, scriptVars, histVars>>

(* Doubled without the doubling: a loop step that forgets N *= 2. *)
DoubledForgotten(x) == {[trap |-> FALSE, v |-> x]}

(* N *= 2 on int.  When 2N is no int the multiplication is undefined: the  *)
(* builds wrap it modulo 2^32, or trap (-ftrapv): the set of outcomes.     *)
Half == (INT_MAX \div 2) + 1
Doubled(x) ==
    IF x >= Half
    THEN {[trap |-> FALSE, v |-> ((x - Half) - Half) * 2], [trap |-> TRUE, v |-> x]}
    ELSE IF x < -Half
    THEN {[trap |-> FALSE, v |-> ((x + Half) + Half) * 2], [trap |-> TRUE, v |-> x]}
    ELSE {[trap |-> FALSE, v |-> x * 2]}

(* the step of collect's loop, ++i, N *= 2 *)
NextSize ==
    /\ pc = "next_size"
    /\ run_i' = run_i + 1
    /\ \E d \in Doubled(N) :
         /\ pc' = IF d.trap THEN "crashed" ELSE "collect_loop"
         /\ N' = d.v
    /\ UNCHANGED <<supported, evt, ctrVars, m_ctr_idx, cfgVars, num_runs, N0, sessVars,
                   sunk, obsVars, scriptVars, histVars>>

(***************************************************************************)
(* collector::get_counts: one trial                                        *)
(***************************************************************************)

(* start(N), the caller's untimed setup *)
Setup ==
    /\ pc = "setup"
    /\ pc' = "start"
    /\ UNCHANGED <<supported, evt, ctrVars, m_ctr_idx, cfgVars, callVars, sessVars,
                   sunk, obsVars, scriptVars, histVars>>

(* run(N), the function under test *)
Run ==
    /\ pc = "run"
    /\ pc' = "stop"
    /\ UNCHANGED <<supported, evt, ctrVars, m_ctr_idx, cfgVars, callVars, sessVars,
                   sunk, obsVars, scriptVars, histVars>>

(* stop(N), the caller's untimed teardown *)
Teardown ==
    /\ pc = "teardown"
    /\ pc' = "read"
    /\ UNCHANGED <<supported, evt, ctrVars, m_ctr_idx, cfgVars, callVars, sessVars,
                   sunk, obsVars, scriptVars, histVars>>

(* one of the caller's callables (start, run, stop, u) throws: the         *)
(* exception leaves collect, unwinding collect_for_input_size's locals     *)
CallbackThrows ==
    /\ pc \in {"setup", "run", "teardown", "sink"}
    /\ pc' = "thrown"
    /\ NoSession
    /\ UNCHANGED <<supported, evt, ctrVars, m_ctr_idx, cfgVars, callVars, sunk, obsVars,
                   scriptVars>>

(***************************************************************************)
(* collector::collect_for_input_size                                       *)
(***************************************************************************)

(* get_counts(...)[m_ctr_idx]: the values the read can yield.  An index    *)
(* outside the vector is undefined: the read traps or yields garbage.      *)
ReadOutcomes(counts, idx) ==
    IF idx >= 0 /\ idx < Len(counts)
    THEN {[trap |-> FALSE, v |-> counts[idx + 1]]}
    ELSE {[trap |-> TRUE, v |-> 0]} \cup {[trap |-> FALSE, v |-> g] : g \in GarbageCounts}

(* if (i == 0 || cnt < L_hat) L_hat = cnt;  i is the trial loop's *)
UpdateLHat(i, cnt, L) == IF i = 0 \/ cnt < L THEN cnt ELSE L

(* the body of the trial loop after get_counts returned, and the loop's    *)
(* step and test                                                           *)
ReadCount ==
    /\ pc = "read"
    /\ \E r \in ReadOutcomes(m_counts, m_ctr_idx) :
         IF r.trap
         THEN /\ pc' = "crashed"
              /\ NoSession
         ELSE /\ sum' = DAdd(sum, DFromInt(r.v))
              /\ L_hat' = UpdateLHat(trial_i, r.v, L_hat)
              /\ trial_i' = trial_i + 1
              /\ trials' = trials + 1
              /\ raw_min' = IF trials = 0 \/ r.v < raw_min THEN r.v ELSE raw_min
              /\ pc' = TrialLoopHead(trial_i + 1, n)
              /\ UNCHANGED <<input_sz, n, n_tot, beta, round_i, rounds, L_end>>
    /\ UNCHANGED <<supported, evt, ctrVars, m_ctr_idx, cfgVars, callVars, sunk, obsVars,
                   scriptVars>>

(* n_tot = n_tot + n *)
NTot(tot, batch) == tot + batch

(* xbar = sum / n_tot *)
Xbar(s, tot) == DDiv(s, DFromInt(tot))

(* lam_hat = 1. / (xbar - L_hat) *)
LamHat(s, tot, L) == DDiv(DFromInt(1), DSub(Xbar(s, tot), DFromInt(L)))

(* fac = n_tot * lam_hat * L_hat;  beta = -std::log(m_alpha) / fac *)
Beta(alpha, s, tot, L) ==
    DDiv(DNeg(DLog(alpha)), DMul(DMul(DFromInt(tot), LamHat(s, tot, L)), DFromInt(L)))

(* Converged written as !(beta > m_beta_min), which also breaks on a NaN. *)
ConvergedNotGreater(b, beta_min) == ~(DLeq(beta_min, b) /\ ~DLeq(b, beta_min))

(* if (beta <= m_beta_min) break; *)
Converged(b, beta_min) == DLeq(b, beta_min)

(* fac = lam_hat * m_beta_min * L_hat;  (int)(-std::log(m_alpha) / fac):   *)
(* the set of values the conversion can yield                              *)
NewN(alpha, beta_min, s, tot, L) ==
    DToInt(DDiv(DNeg(DLog(alpha)), DMul(DMul(LamHat(s, tot, L), beta_min), DFromInt(L))))

(* NextBatch without the clamp to min_incr. *)
NextBatchNoFloor(new_n, tot, min_incr, max_incr) ==
    IF new_n < tot THEN min_incr
    ELSE LET d == new_n - tot
         IN  IF d > max_incr THEN max_incr ELSE d

(* NextBatch without the clamp to max_incr. *)
NextBatchNoCap(new_n, tot, min_incr, max_incr) ==
    IF new_n < tot THEN min_incr
    ELSE LET d == new_n - tot
         IN  IF d < min_incr THEN min_incr ELSE d

(* the choice of the next batch size from new_n *)
NextBatch(new_n, tot, min_incr, max_incr) ==
    IF new_n < tot THEN min_incr
    ELSE LET d == new_n - tot
         IN  IF d > max_incr THEN max_incr
             ELSE IF d < min_incr THEN min_incr
             ELSE d

(* the end of a round: the beta estimate, the break, the next batch size,  *)
(* and the round loop's step and test                                      *)
Stats ==
    /\ pc = "stats"
    /\ LET tot == NTot(n_tot, n)
           b == Beta(m_alpha, sum, tot, L_hat)
       IN  /\ n_tot' = tot
           /\ beta' = b
           /\ rounds' = rounds + 1
           /\ L_end' = L_hat
           /\ IF Converged(b, m_beta_min)
              THEN /\ pc' = "sink"
                   /\ UNCHANGED <<n, round_i>>
              ELSE \E new_n \in NewN(m_alpha, m_beta_min, sum, tot, L_hat) :
                     /\ n' = NextBatch(new_n, tot, m_min_incr, m_max_incr)
                     /\ round_i' = round_i + 1
                     /\ pc' = RoundLoopHead(round_i + 1, m_max_rounds, n')
    /\ trial_i' = 0
    /\ UNCHANGED <<supported, evt, ctrVars, m_ctr_idx, cfgVars, callVars, input_sz, sum,
                   L_hat, sunk, obsVars, scriptVars, trials, raw_min>>

(* u(input_sz, sum, L_hat, n_tot) returns, and collect_for_input_size with *)
(* it                                                                      *)
Sink ==
    /\ pc = "sink"
    /\ sunk' = Append(sunk, input_sz)
    /\ prev' = IF script = << >>
               THEN prev
               ELSE [rounds |-> rounds, n_tot |-> n_tot, beta |-> beta]
    /\ NoSession
    /\ pc' = "next_size"
    /\ UNCHANGED <<supported, evt, ctrVars, m_ctr_idx, cfgVars, callVars, obsVars,
                   script, pos, before>>

(***************************************************************************)
(* The specification                                                       *)
(***************************************************************************)

(* The machines: every combination of requested events the kernel opens. *)
Kernels == [DOMAIN RequestedEvents -> BOOLEAN]
AllOpen == [i \in DOMAIN RequestedEvents |-> TRUE]

(* The valid configurations: alpha and beta_min in (0,1),                  *)
(* 1 <= min_incr <= max_incr, max_rounds >= 1, n_init >= 1.                *)
Configs ==
    {c \in [alpha : AlphaChoices, beta_min : BetaMinChoices,
            min_incr : 1 .. MaxIncr, max_incr : 1 .. MaxIncr,
            max_rounds : 1 .. MaxRounds, n_init : NInitChoices] :
        c.min_incr <= c.max_incr}

(* Configurations with more rounds, of batches of 1 to MaxIncr trials. *)
DeepConfigs ==
    [alpha : AlphaChoices, beta_min : BetaMinChoices, min_incr : {1}, max_incr : {MaxIncr},
     max_rounds : {DeepRounds}, n_init : {1}]

(* The configuration every machine is tried with. *)
BaseConfig ==
    [alpha |-> Fin(1, 1, 20), beta_min |-> Fin(1, 1, 2), min_incr |-> 1,
     max_incr |-> MaxIncr, max_rounds |-> MaxRounds, n_init |-> 1]

(* no session, and no collector, came before *)
NoPrev == [rounds |-> 0, n_tot |-> 0, beta |-> Fin(1, 0, 1)]
NoBefore == [alpha |-> Fin(1, 0, 1), n_tot |-> 0, beta |-> Fin(1, 0, 1)]

(* the members of the collector constructed with configuration c on the   *)
(* machine k                                                               *)
Configured(k, c) ==
    /\ supported = k
    /\ m_alpha = c.alpha
    /\ m_beta_min = c.beta_min
    /\ m_min_incr = c.min_incr
    /\ m_max_incr = c.max_incr
    /\ m_max_rounds = c.max_rounds
    /\ m_n_init = c.n_init

(* Before collector::collector runs: m_ctr_idx is -1, the counter is       *)
(* empty, no call is under way.                                            *)
Unconstructed ==
    /\ pc = "init_event"
    /\ evt = 0
    /\ m_events = << >>
    /\ m_fds = << >>
    /\ m_counts = << >>
    /\ enabled = {}
    /\ closed = << >>
    /\ m_ctr_idx = -1
    /\ N = 0
    /\ N0 = 0
    /\ num_runs = 0
    /\ run_i = 0
    /\ input_sz = 0
    /\ n = 0
    /\ sum = Fin(1, 0, 1)
    /\ L_hat = 0
    /\ n_tot = 0
    /\ beta = Fin(1, 0, 1)
    /\ round_i = 0
    /\ trial_i = 0
    /\ sunk = << >>
    /\ ctl_failed = FALSE
    /\ running = FALSE
    /\ pos = 1
    /\ prev = NoPrev
    /\ before = NoBefore
    /\ trials = 0
    /\ raw_min = 0
    /\ rounds = 0
    /\ L_end = 0

(* The caller's configuration is in the const members.  Every machine is   *)
(* tried with the base configuration, and every valid configuration on the *)
(* machine that opens all four events; the kernel's reads return any       *)
(* counts.                                                                 *)
Init ==
    /\ Unconstructed
    /\ script = << >>
    /\ \E k \in Kernels, c \in Configs :
         /\ k = AllOpen \/ c = BaseConfig
         /\ Configured(k, c)

(* The same on the machine that opens all four events, with a kernel that  *)
(* follows a script.                                                       *)
ScriptInit ==
    /\ Unconstructed
    /\ script \in Scripts
    /\ \E c \in Configs \cup DeepConfigs : Configured(AllOpen, c)

(* The caller constructs another collector on the same machine, with      *)
(* another alpha and the same other parameters, and the experiment is      *)
(* repeated: a kernel that follows a script starts it again.               *)
Reconstruct ==
    /\ pc = "destroyed"
    /\ before = NoBefore
    /\ \E a \in AlphaChoices \ {m_alpha} : m_alpha' = a
    /\ before' = IF script /= << >> /\ Len(sunk) = 1
                 THEN [alpha |-> m_alpha, n_tot |-> prev.n_tot, beta |-> prev.beta]
                 ELSE NoBefore
    /\ prev' = NoPrev
    /\ pos' = 1
    /\ pc' = "init_event"
    /\ evt' = 0
    /\ m_events' = << >>
    /\ m_fds' = << >>
    /\ m_counts' = << >>
    /\ enabled' = {}
    /\ closed' = << >>
    /\ m_ctr_idx' = -1
    /\ N' = 0
    /\ N0' = 0
    /\ num_runs' = 0
    /\ run_i' = 0
    /\ sunk' = << >>
    /\ ctl_failed' = FALSE
    /\ running' = FALSE
    /\ UNCHANGED <<supported, script, m_beta_min, m_min_incr, m_max_incr, m_max_rounds,
                   m_n_init, sessVars, histVars>>

Next ==
    \/ InitEvent
    \/ CtorBody
    \/ Collect
    \/ SessionBegin
    \/ Setup
    \/ CounterStart
    \/ CounterStartThrows
    \/ Run
    \/ CounterStop
    \/ CounterStopThrows
    \/ Teardown
    \/ CallbackThrows
    \/ ReadCount
    \/ Stats
    \/ Sink
    \/ NextSize
    \/ CollectReturn
    \/ Reconstruct
    \/ Destroy

Spec == Init /\ [][Next]_vars

(* The program runs on: a step that can be taken is taken (the caller      *)
(* calls collect or destroys the collector, and every callback, ioctl and  *)
(* read returns or throws).                                                *)
FairSpec == Spec /\ WF_vars(Next)

(* The program with a kernel whose counts are fixed in advance. *)
ScriptSpec == ScriptInit /\ [][Next]_vars

(***************************************************************************)
(* Properties                                                              *)
(***************************************************************************)

(* b = 2 * a, without forming 2 * a *)
IsTwice(a, b) == b % 2 = 0 /\ b \div 2 = a

(* the sink was called with sz, 2 sz, 4 sz, ..., k sizes in all *)
SunkDoubling(sz, k) ==
    /\ Len(sunk) = k
    /\ k > 0 => sunk[1] = sz
    /\ \A j \in 2 .. k : IsTwice(sunk[j - 1], sunk[j])

(* sz * 2^k is an int *)
FitsInt(sz, k) == sz <= INT_MAX \div (2 ^ k) /\ sz >= INT_MIN \div (2 ^ k)

(* C1, as stated: for any N and k >= 0, a collect call in which nothing    *)
(* fails has invoked the sink exactly k times when it returns, the j-th    *)
(* time with N * 2^j (j = 0 .. k-1), in that order.                        *)
C1_SinkSizesAnyN == pc = "done" => SunkDoubling(N0, num_runs)

(* C1, amended: the same for any N and k with N * 2^k in the range of int  *)
(* (collect doubles N after every session, the last one included, and the  *)
(* doubling of an int is defined only within its range).                   *)
C1_SinkSizes == (pc = "done" /\ FitsInt(N0, num_runs)) => SunkDoubling(N0, num_runs)

(* C1, witness: collect(64, 2, ...) returned after reporting 64 and 128 *)
C1_Witness == pc = "done" /\ N0 = 64 /\ num_runs = 2 /\ sunk = <<64, 128>>

(* C2: when a session ends and the sink is invoked, the beta of the last   *)
(* executed round is <= beta_min or the session executed max_rounds        *)
(* rounds.                                                                 *)
C2_ConvergedOrExhausted ==
    pc = "sink" => (DLeq(beta, m_beta_min) \/ rounds = m_max_rounds)

(* C2, witnesses: a session that ends exhausted without converging, with a *)
(* finite beta; the other ends converged before its last round             *)
C2_Witness ==
    /\ pc = "sink"
    /\ rounds = m_max_rounds
    /\ rounds > 1
    /\ beta.k = "fin"
    /\ ~DLeq(beta, m_beta_min)

C2_WitnessConverged ==
    pc = "sink" /\ rounds < m_max_rounds /\ beta.k = "fin" /\ beta.s = 1 /\ beta.n > 0
        /\ DLeq(beta, m_beta_min)

(* the program is inside a round of a session: between the round loop's    *)
(* test and the end of the round's statistics                              *)
InRound == pc \in {"setup", "start", "run", "stop", "teardown", "read", "stats"}

(* C3: the L_hat passed to the sink is <= every raw count read from the    *)
(* selected channel in any trial of any round of the session.              *)
C3_LHatIsSessionMinimum == (pc = "sink" /\ trials > 0) => L_hat <= raw_min

(* C4: L_hat at the end of round r+1 is <= L_hat at the end of round r.    *)
C4_LHatNonIncreasing == (pc = "stats" /\ rounds > 0) => L_hat <= L_end

(* C5: n_tot strictly increases in every round of a session (the end of a  *)
(* round is the only step that assigns it), from 0: it is > 0 after round  *)
(* 1.                                                                      *)
C5_NTotIncreases == [][pc = "stats" => n_tot' > n_tot]_vars

(* C5, witness: the second round of a session has ended with a larger      *)
(* n_tot than the first round's n_init                                     *)
C5_Witness ==
    pc = "sink" /\ rounds = 2 /\ n_tot > m_n_init /\ m_n_init > 0 /\ beta.k = "fin"

(* C6: in every round after the first the batch size n satisfies           *)
(* min_incr <= n <= max_incr.                                              *)
C6_BatchWithinIncrements ==
    (InRound /\ rounds > 0) => (m_min_incr <= n /\ n <= m_max_incr)

(* C6, witness: after a first round with a finite beta above beta_min, the *)
(* second round runs with a batch size that differs from n_init            *)
C6_Witness ==
    /\ InRound
    /\ rounds = 1
    /\ beta.k = "fin"
    /\ L_end > 0
    /\ m_ctr_idx < Len(m_counts)
    /\ n /= m_n_init
    /\ m_min_incr < m_max_incr

(* C7: n_tot is at least n_init + 1 after the first round of every         *)
(* session.                                                                *)
C7_NTotAfterFirstRound == rounds = 1 => n_tot >= m_n_init + 1

(* C8: the n_tot passed to the sink equals the number of trials performed  *)
(* in the session.                                                         *)
C8_NTotCountsTrials == pc = "sink" => n_tot = trials

(* the event the constructed collector's index selects in the counts, or   *)
(* "none" when the index is outside them                                   *)
SelectedEvent ==
    IF m_ctr_idx >= 0 /\ m_ctr_idx < Len(m_events)
    THEN m_events[m_ctr_idx + 1].config
    ELSE "none"

Constructed == pc /= "init_event"

(* C9: for every combination of open outcomes, the index read on each      *)
(* trial refers to the instruction count if that event opened, otherwise   *)
(* to the task clock (stated where one of the two opened: C10 has the      *)
(* rest); it never refers to the cpu clock or the reference cycles.        *)
C9_SelectsInstructionsElseTaskClock ==
    (Constructed /\ (supported[PERF_HW_INSTR_CTR + 1] \/ supported[PERF_SW_TASK_CLK + 1]))
        => SelectedEvent = (IF supported[PERF_HW_INSTR_CTR + 1]
                            THEN "PERF_COUNT_HW_INSTRUCTIONS"
                            ELSE "PERF_COUNT_SW_TASK_CLOCK")

(* C10: when neither the instruction count nor the task clock opens,       *)
(* construction fails: no collector is produced; and no collector is       *)
(* produced whose index is outside the counts.                             *)
C10_ConstructionFails ==
    /\ (~supported[PERF_HW_INSTR_CTR + 1] /\ ~supported[PERF_SW_TASK_CLK + 1])
          => ~Constructed
    /\ Constructed => SelectedEvent /= "none"

(* collect has been left by an exception, and what follows it *)
Aborted == {"thrown", "destroyed"}

(* C11: once an ioctl or read of counter::start or counter::stop has       *)
(* failed, collect has been left at once by the exception: until the       *)
(* collector is destroyed no step of a trial follows, no event is started, *)
(* stopped or read again, and the sink is called no more, for the session  *)
(* under way or a later one.                                               *)
C11_ControlFailureAborts ==
    [][/\ ctl_failed' => pc' \in Aborted
       /\ (ctl_failed /\ pc /= "destroyed") =>
             /\ sunk' = sunk
             /\ enabled' = enabled
             /\ m_counts' = m_counts
             /\ UNCHANGED sessVars]_vars

(* C11, witness: the read of the second event failed in a trial of the     *)
(* second session of a collect of two, after the first was reported        *)
C11_Witness ==
    /\ ctl_failed
    /\ pc = "thrown"
    /\ num_runs = 2
    /\ Len(sunk) = 1
    /\ m_counts[1] > 0
    /\ m_counts[2] = 0

(* C12: a collect whose callbacks and counter calls all return ends by    *)
(* returning, after exactly num_runs sessions, whatever the counts (stated *)
(* for N * 2^num_runs within int, see C1); no session executes more than   *)
(* max_rounds rounds, and fewer only with beta <= beta_min; no round       *)
(* executes more than n + 1 trials.                                        *)
C12_CollectTerminates ==
    /\ [](trial_i <= n + 1 /\ rounds <= m_max_rounds)
    /\ []((pc = "sink" /\ rounds < m_max_rounds) => DLeq(beta, m_beta_min))
    /\ [](pc = "done" => (Len(sunk) = num_runs /\ run_i = num_runs))
    /\ (pc = "collect_loop" /\ FitsInt(N0, num_runs)) ~> (pc \in {"done", "thrown"})

(* the opened events, as the set of their descriptors *)
OpenedFds == FdsBelow(m_fds, Len(m_fds) + 1)

(* C13: the five steps of a trial come in the order setup, counter start,  *)
(* run, counter stop, teardown (an exception apart); setup and teardown    *)
(* execute with the counter stopped and no event enabled, run with the     *)
(* counter started and every opened event enabled; the counter is started  *)
(* only when stopped and stopped only when started, so that starts and     *)
(* stops alternate, the first being a start.                               *)
C13_TrialStepOrder ==
    [][/\ pc = "setup" => /\ ~running /\ enabled = {}
                          /\ pc' \in {"start", "thrown"}
       /\ pc = "start" => /\ ~running /\ enabled = {}
                          /\ pc' \in {"run", "thrown"}
                          /\ pc' = "run" => running'
       /\ pc = "run" => /\ running /\ enabled = OpenedFds
                        /\ pc' \in {"stop", "thrown"}
       /\ pc = "stop" => /\ running /\ enabled = OpenedFds
                         /\ pc' \in {"teardown", "thrown"}
                         /\ pc' = "teardown" => ~running'
       /\ pc = "teardown" => /\ ~running /\ enabled = {}
                             /\ pc' \in {"read", "thrown"}
       /\ running' /= running => pc \in {"start", "stop", "destroyed"}]_vars

(* C13, witness: the teardown of the second trial of a session, on a       *)
(* machine with opened events: the counter was started and stopped twice   *)
C13_Witness ==
    /\ pc = "teardown"
    /\ trials = 1
    /\ trial_i = 1
    /\ ~running
    /\ Len(m_fds) > 1
    /\ m_counts[1] > 0

(* C14: at the end of a session exactly one of the two holds: beta <=     *)
(* beta_min in the last executed round, or the session executed max_rounds *)
(* rounds; never both.                                                     *)
C14_ExactlyOneEnd ==
    pc = "sink" => (DLeq(beta, m_beta_min) /= (rounds = m_max_rounds))

(* C14, amended: at the end of a session the round loop was left in        *)
(* exactly one of two ways: by the break, with beta <= beta_min in the     *)
(* last executed round, which is any round up to the max_rounds-th; or by  *)
(* its test, after max_rounds rounds the last of which did not have        *)
(* beta <= beta_min.                                                       *)
C14_OneWayOut ==
    pc = "sink" =>
        IF DLeq(beta, m_beta_min)
        THEN round_i < m_max_rounds /\ rounds = round_i + 1
        ELSE round_i = m_max_rounds /\ rounds = m_max_rounds

(* C14, witness: a session ends with a positive finite beta <= beta_min    *)
(* reached in its max_rounds-th round, the second                          *)
C14_Witness ==
    /\ pc = "sink"
    /\ rounds = 2
    /\ rounds = m_max_rounds
    /\ beta.k = "fin" /\ beta.s = 1 /\ beta.n > 0
    /\ DLeq(beta, m_beta_min)

(* the kernel follows a script that is one count repeated *)
ConstantScript ==
    script /= << >> /\ \A i \in DOMAIN script : script[i] = script[1]

(* a session ended before the one under way, under a script *)
PrevSession == prev.rounds > 0

(* C15: with a kernel that returns the same count on every read, every     *)
(* session of a collector ends with the rounds, n_tot and beta of the      *)
(* session before it, whatever the input sizes; and every session starts   *)
(* from the same locals, whatever the sessions before it left.             *)
C15_SessionsRepeat ==
    /\ (pc = "sink" /\ ConstantScript /\ PrevSession) =>
          /\ rounds = prev.rounds
          /\ n_tot = prev.n_tot
          /\ beta = prev.beta
    /\ (pc = "setup" /\ trials = 0) =>
          /\ n = m_n_init
          /\ sum = DFromInt(0)
          /\ <<L_hat, n_tot, round_i, trial_i>> = <<0, 0, 0, 0>>
          /\ beta = DAdd(m_beta_min, DFromInt(1))

(* C15, witness: the second session of a collect ends, at twice the input  *)
(* size of the first, after two rounds of a kernel that always returns     *)
(* the high count                                                          *)
C15_Witness ==
    /\ pc = "sink"
    /\ ConstantScript
    /\ script[1] = HighCount
    /\ PrevSession
    /\ input_sz = 128
    /\ rounds = 2
    /\ n_tot > m_n_init

(* x < y on doubles *)
DLess(x, y) == DLeq(x, y) /\ ~DLeq(y, x)

(* the first session of this collector ends, and the collector before it   *)
(* ran its one session on the same counts with the same parameters but for *)
(* alpha                                                                   *)
SameCountsOtherAlpha == pc = "sink" /\ Len(sunk) = 0 /\ before /= NoBefore

(* C16: of two sessions with the same parameters but for alpha, fed the    *)
(* same counts, that both end with beta <= beta_min, the one with the      *)
(* smaller alpha ends with an n_tot at least that of the other.            *)
C16_MonotoneInAlpha ==
    (/\ SameCountsOtherAlpha
     /\ DLeq(beta, m_beta_min)
     /\ DLeq(before.beta, m_beta_min))
        => /\ DLess(m_alpha, before.alpha) => n_tot >= before.n_tot
           /\ DLess(before.alpha, m_alpha) => before.n_tot >= n_tot

(* every count read so far in the session under way is > 0 *)
PositiveCounts == trials > 0 /\ raw_min > 0

(* C17: in a session fed strictly positive counts, when a round computes   *)
(* the rate estimate the mean exceeds L_hat (xbar > L_hat), and a session  *)
(* that ends with beta <= beta_min ends with a positive finite beta.       *)
C17_MeanExceedsLHat ==
    /\ (pc = "stats" /\ PositiveCounts) =>
          DLess(DFromInt(L_hat), Xbar(sum, NTot(n_tot, n)))
    /\ (pc = "sink" /\ PositiveCounts /\ DLeq(beta, m_beta_min)) =>
          (beta.k = "fin" /\ beta.s = 1 /\ beta.n > 0)

(* -ln(alpha) / (lam_hat * beta_min * L_hat), the projected total *)
Projection(alpha, beta_min, s, tot, L) ==
    DDiv(DNeg(DLog(alpha)), DMul(DMul(LamHat(s, tot, L), beta_min), DFromInt(L)))

(* floor(x) of a finite x *)
DFloor(x) == IF x.s = 1 THEN x.n \div x.d ELSE -((x.n + x.d - 1) \div x.d)

(* x clamped into lo .. hi *)
Clamp(x, lo, hi) == IF x < lo THEN lo ELSE IF x > hi THEN hi ELSE x

(* C18: after a round that did not end with beta <= beta_min, with         *)
(* target_n_tot = floor(-ln(alpha) / (lam_hat * beta_min * L_hat)), the    *)
(* next batch size is min_incr when target_n_tot < n_tot, and else         *)
(* target_n_tot - n_tot clamped into min_incr .. max_incr (max_incr for a  *)
(* projection of +infinity, min_incr for one of -infinity); the step       *)
(* leaves sum and L_hat alone, and n_tot at the round's total.             *)
C18_NextBatchExact ==
    [][(pc = "stats" /\ ~DLeq(beta', m_beta_min)) =>
          LET q == Projection(m_alpha, m_beta_min, sum, n_tot', L_hat)
          IN  /\ q.k = "fin" =>
                   n' = IF DFloor(q) < n_tot'
                        THEN m_min_incr
                        ELSE Clamp(DFloor(q) - n_tot', m_min_incr, m_max_incr)
              /\ (q.k = "inf" /\ q.s = 1) => n' = m_max_incr
              /\ (q.k = "inf" /\ q.s = -1) => n' = m_min_incr
              /\ sum' = sum
              /\ L_hat' = L_hat
              /\ n_tot' = n_tot + n]_vars

(* C19: once the counter is constructed, for every requested event i      *)
(* (0 .. 3) and every combination of open outcomes, get_status(i) is true  *)
(* exactly when the i-th requested event was opened.                       *)
C19_StatusTellsOpened ==
    Constructed =>
        \A i \in 0 .. Len(RequestedEvents) - 1 : get_status(m_fds, i) = supported[i + 1]

(* C20: when the collector, and its counter, has been destroyed, every     *)
(* descriptor opened at construction has been closed exactly once and      *)
(* nothing else has been closed, for every combination of open outcomes    *)
(* (with none opened, nothing is closed), whether collect returned, threw  *)
(* or was never called.                                                    *)
C20_EveryHandleClosedOnce ==
    pc = "destroyed" =>
        /\ Len(closed) = Len(m_fds)
        /\ \A fd \in OpenedFds : Cardinality({j \in DOMAIN closed : closed[j] = fd}) = 1

=============================================================================
